---------------------------- MODULE Spec2Model ----------------------------
(***************************************************************************)
(* Model of the profiler "explain" route of the MongoDB performance tools  *)
(* backend (backend/routes/profiler.js): the Historical Operation Locator, *)
(* the Namespace Resolver, the Operation Reconstructor, the Plan Executor  *)
(* call, the Diagnostic Extractor, the Recommendation Generator and the    *)
(* Diagnostic Assembler, together with the storage engine they talk to.    *)
(* Further specifications over the same variables: SpecDiag applies the    *)
(* transformation of an explain result to stage trees and counters drawn   *)
(* in its initial state, SpecConcurrent runs two explain requests at once, *)
(* and SpecApi adds the time-ranged endpoints (GET /api/profiler and       *)
(* backend/routes/analytics.js) with their parameter validation.           *)
(*                                                                         *)
(* Representation of JavaScript values                                     *)
(*   - a document (filter, sort, update, data document) is a set of        *)
(*     <<key, value>> pairs with string keys and string values; {} is the  *)
(*     empty document {}, which is TRUTHY in JavaScript;                   *)
(*   - an optional field is a set with at most one element: {} when the    *)
(*     field is absent (undefined), {v} when it is present;                *)
(*   - a string that is scanned (the namespace) is a sequence of           *)
(*     one-character strings.                                              *)
(***************************************************************************)
EXTENDS Integers, Sequences, FiniteSets, TLC

VARIABLES
    profile,     \* system.profile: the profiling log, in natural order
    data,        \* contents of the target collection DataDb.DataColl
    inflight,    \* mutating operations sent to the storage engine, not yet applied
    dispatched,  \* every mutating operation ever sent to the storage engine
    req,         \* per request: position in the handler and its locals
    diag,        \* an explain result under transformation: the input and the plan built
    api,         \* a request to one of the time-ranged endpoints, and what it did
    dbmod        \* the connection module: its client and db, the clients made, its callers

vars == <<profile, data, inflight, dispatched, req, diag, api, dbmod>>

---------------------------------------------------------------------------
(* Bounds *)

\* counters (docsExamined, docsReturned, ...) range over 0..MaxCount
MaxCount == 2

\* every stage tree of at most MaxNodes nodes is put under transformation
MaxNodes == 3

\* summary counters under transformation: examined in 0..MaxExamined, returned
\* in 0..MaxReturned
MaxExamined == 21
MaxReturned == 2

---------------------------------------------------------------------------
(* JavaScript helpers *)

\* the value of a present optional field
TheOne(opt) == CHOOSE x \in opt : TRUE

\* a || b for object-valued optional fields: an object is truthy, absent is not
OrObj(a, b) == IF a # {} THEN a ELSE b

\* a || b for number-valued optional fields: 0 and absent are falsy
OrNum(a, b) == IF a # {} /\ TheOne(a) # 0 THEN a ELSE b

\* (opt || dflt) with a literal default on the right
Dflt(opt, dflt) == IF opt # {} THEN TheOne(opt) ELSE dflt

\* Object.keys(doc)
Keys(doc) == {kv[1] : kv \in doc}

\* { ...a, ...b }: the keys of both, b's value on a collision
Spread(a, b) == {kv \in a : kv[1] \notin Keys(b)} \cup b


\* the first n elements of a sequence (all of them when it is shorter)
Take(s, n) == SubSeq(s, 1, IF Len(s) < n THEN Len(s) ELSE n)

\* String.prototype.split(sep) for a one-character separator: the pieces between
\* the separators, empty pieces included
RECURSIVE SplitAll(_, _)
SplitAll(s, sep) ==
    IF \A i \in 1..Len(s) : s[i] # sep
    THEN <<s>>
    ELSE LET i == CHOOSE j \in 1..Len(s) :
                      s[j] = sep /\ \A k \in 1..(j - 1) : s[k] # sep
         IN  <<SubSeq(s, 1, i - 1)>> \o SplitAll(SubSeq(s, i + 1, Len(s)), sep)

\* String.prototype.split(sep, limit): split everywhere, keep the first `limit` pieces
Split(s, sep, limit) == Take(SplitAll(s, sep), limit)

\* Math.round(100 * returned / examined) for examined > 0 and returned >= 0
\* (halves round up).  The code computes (returned / examined) * 100 in double
\* precision; within the counters modelled the two agree.
RoundPct(returned, examined) == (200 * returned + examined) \div (2 * examined)

---------------------------------------------------------------------------
(* Diagnostic Extractor *)

\* explainResult.executionStats || {}  : an absent block reads as one with no fields
NoStats == [totalDocsExamined |-> {}, totalDocsReturned |-> {}, executionStages |-> {}]
StatsOf(explainResult) == Dflt(explainResult.executionStats, NoStats)

\* extractIndexesUsed: traverseStages pushes the node's index name, then walks
\* inputStage, then every element of inputStages
RECURSIVE traverseIndexes(_)
RECURSIVE traverseIndexesAll(_)
traverseIndexes(stage) ==
    (IF stage.indexName # {} THEN <<TheOne(stage.indexName)>> ELSE <<>>)
    \o (IF stage.inputStage # {} THEN traverseIndexes(TheOne(stage.inputStage)) ELSE <<>>)
    \o (IF stage.inputStages # {} THEN traverseIndexesAll(TheOne(stage.inputStages)) ELSE <<>>)
traverseIndexesAll(stages) ==
    IF stages = <<>> THEN <<>>
    ELSE traverseIndexes(Head(stages)) \o traverseIndexesAll(Tail(stages))

\* [...new Set(seq)]: the first occurrence of every element, in order
RECURSIVE Dedup(_)
Dedup(seq) ==
    IF seq = <<>> THEN <<>>
    ELSE LET front == Dedup(SubSeq(seq, 1, Len(seq) - 1))
             last  == seq[Len(seq)]
         IN  IF \E i \in 1..Len(front) : front[i] = last THEN front
             ELSE Append(front, last)

\* variant: the collected names are returned as collected, repetitions included
extractIndexesUsedAll(explainResult) ==
    LET stats == StatsOf(explainResult)
    IN  IF stats.executionStages # {}
        THEN traverseIndexes(TheOne(stats.executionStages))
        ELSE <<>>

extractIndexesUsed(explainResult) ==
    LET stats == StatsOf(explainResult)
    IN  IF stats.executionStages # {}
        THEN Dedup(traverseIndexes(TheOne(stats.executionStages)))
        ELSE <<>>

\* isCollectionScan: checkForCollScan returns from the first branch that applies
RECURSIVE checkForCollScan(_)
checkForCollScan(stage) ==
    IF stage.stage = "COLLSCAN" THEN TRUE
    ELSE IF stage.inputStage # {} THEN checkForCollScan(TheOne(stage.inputStage))
    ELSE IF stage.inputStages # {}
         THEN LET ss == TheOne(stage.inputStages)
              IN  \E i \in 1..Len(ss) : checkForCollScan(ss[i])
    ELSE FALSE

isCollectionScan(explainResult) ==
    LET stats == StatsOf(explainResult)
    IN  IF stats.executionStages # {}
        THEN checkForCollScan(TheOne(stats.executionStages))
        ELSE FALSE

\* extractExecutionStages: one entry per visited node, the node before its
\* children, inputStage before inputStages, children one level deeper
RECURSIVE traverseStages(_, _)
RECURSIVE traverseStagesAll(_, _)
\* variant: the entry of a node is pushed after its children were walked
traverseStagesPostOrder(stage, depth) ==
    (IF stage.inputStage # {}
     THEN traverseStages(TheOne(stage.inputStage), depth + 1) ELSE <<>>)
    \o (IF stage.inputStages # {}
        THEN traverseStagesAll(TheOne(stage.inputStages), depth + 1) ELSE <<>>)
    \o <<[stage        |-> stage.stage,
          depth        |-> depth,
          indexName    |-> stage.indexName,
          docsExamined |-> stage.docsExamined]>>

traverseStages(stage, depth) ==
    <<[stage        |-> stage.stage,
       depth        |-> depth,
       indexName    |-> stage.indexName,
       docsExamined |-> stage.docsExamined]>>
    \o (IF stage.inputStage # {}
        THEN traverseStages(TheOne(stage.inputStage), depth + 1) ELSE <<>>)
    \o (IF stage.inputStages # {}
        THEN traverseStagesAll(TheOne(stage.inputStages), depth + 1) ELSE <<>>)
traverseStagesAll(stages, depth) ==
    IF stages = <<>> THEN <<>>
    ELSE traverseStages(Head(stages), depth) \o traverseStagesAll(Tail(stages), depth)

extractExecutionStages(explainResult) ==
    LET stats == StatsOf(explainResult)
    IN  IF stats.executionStages # {}
        THEN traverseStages(TheOne(stats.executionStages), 0)
        ELSE <<>>

\* stats.totalDocsExamined || profileDoc.docsExamined || 0
ExaminedOf(explainResult, profileDoc) ==
    Dflt(OrNum(StatsOf(explainResult).totalDocsExamined, profileDoc.docsExamined), 0)

\* stats.totalDocsReturned || profileDoc.docsReturned || 0
ReturnedOf(explainResult, profileDoc) ==
    Dflt(OrNum(StatsOf(explainResult).totalDocsReturned, profileDoc.docsReturned), 0)

\* variant: the two early returns in the other order
calculateEfficiencyReturnedFirst(explainResult, profileDoc) ==
    LET examined == ExaminedOf(explainResult, profileDoc)
        returned == ReturnedOf(explainResult, profileDoc)
    IN  IF returned = 0 THEN 0
        ELSE IF examined = 0 THEN 100
        ELSE RoundPct(returned, examined)

calculateEfficiency(explainResult, profileDoc) ==
    LET examined == ExaminedOf(explainResult, profileDoc)
        returned == ReturnedOf(explainResult, profileDoc)
    IN  IF examined = 0 THEN 100
        ELSE IF returned = 0 THEN 0
        ELSE RoundPct(returned, examined)

\* the performance block of the response
PerformanceOf(explainResult, profileDoc) ==
    [totalDocsExamined |-> ExaminedOf(explainResult, profileDoc),
     totalDocsReturned |-> ReturnedOf(explainResult, profileDoc),
     indexesUsed       |-> extractIndexesUsed(explainResult),
     isCollectionScan  |-> isCollectionScan(explainResult),
     efficiency        |-> calculateEfficiency(explainResult, profileDoc)]

---------------------------------------------------------------------------
(* Recommendation Generator *)

\* variant: on a key collision the filter's value is kept in the sort index
generateIndexRecommendationsFilterWins(explainResult, command) ==
    LET scan     == isCollectionScan(explainResult)
        filter   == Dflt(OrObj(OrObj(command.filter, command.query), command.q), {})
        sort     == Dflt(command.sort, {})
        stats    == StatsOf(explainResult)
        examined == Dflt(OrNum(stats.totalDocsExamined, {}), 0)
        returned == Dflt(OrNum(stats.totalDocsReturned, {}), 0)
    IN  (IF scan /\ Keys(filter) # {}
         THEN <<[type |-> "missing_index", priority |-> "high",
                 suggestedIndex |-> {filter}]>>
         ELSE <<>>)
        \o
        (IF scan /\ Keys(sort) # {}
         THEN <<[type |-> "sort_index", priority |-> "medium",
                 suggestedIndex |-> {Spread(sort, filter)}]>>
         ELSE <<>>)
        \o
        (IF examined > 0 /\ returned > 0 /\ 100 * returned < 10 * examined
         THEN <<[type |-> "low_efficiency", priority |-> "medium",
                 suggestedIndex |-> {}]>>
         ELSE <<>>)

\* variant: the efficiency rule is an else-branch of the full-scan rules
generateIndexRecommendationsElse(explainResult, command) ==
    LET scan     == isCollectionScan(explainResult)
        filter   == Dflt(OrObj(OrObj(command.filter, command.query), command.q), {})
        sort     == Dflt(command.sort, {})
        stats    == StatsOf(explainResult)
        examined == Dflt(OrNum(stats.totalDocsExamined, {}), 0)
        returned == Dflt(OrNum(stats.totalDocsReturned, {}), 0)
    IN  IF scan
        THEN (IF Keys(filter) # {}
              THEN <<[type |-> "missing_index", priority |-> "high",
                      suggestedIndex |-> {filter}]>>
              ELSE <<>>)
             \o
             (IF Keys(sort) # {}
              THEN <<[type |-> "sort_index", priority |-> "medium",
                      suggestedIndex |-> {Spread(filter, sort)}]>>
              ELSE <<>>)
        ELSE (IF examined > 0 /\ returned > 0 /\ 100 * returned < 10 * examined
              THEN <<[type |-> "low_efficiency", priority |-> "medium",
                      suggestedIndex |-> {}]>>
              ELSE <<>>)

generateIndexRecommendations(explainResult, command) ==
    LET scan     == isCollectionScan(explainResult)
        filter   == Dflt(OrObj(OrObj(command.filter, command.query), command.q), {})
        sort     == Dflt(command.sort, {})
        stats    == StatsOf(explainResult)
        examined == Dflt(OrNum(stats.totalDocsExamined, {}), 0)
        returned == Dflt(OrNum(stats.totalDocsReturned, {}), 0)
    IN  (IF scan /\ Keys(filter) # {}
         THEN <<[type |-> "missing_index", priority |-> "high",
                 suggestedIndex |-> {filter}]>>
         ELSE <<>>)
        \o
        (IF scan /\ Keys(sort) # {}
         THEN <<[type |-> "sort_index", priority |-> "medium",
                 suggestedIndex |-> {Spread(filter, sort)}]>>
         ELSE <<>>)
        \o
        \* (returned / examined) * 100 < 10
        (IF examined > 0 /\ returned > 0 /\ 100 * returned < 10 * examined
         THEN <<[type |-> "low_efficiency", priority |-> "medium",
                 suggestedIndex |-> {}]>>
         ELSE <<>>)

---------------------------------------------------------------------------
(* Documents of the model *)

\* filters, sorts and update documents found in logged commands
FStatus == {<<"status", "pending">>}        \* { status: "pending" }
FAge    == {<<"age", "18">>}                \* { age: 18 }
SDate   == {<<"created", "-1">>}            \* { created: -1 }
SStatus == {<<"status", "-1">>}             \* { status: -1 }
USet    == {<<"$set", "flag">>}             \* { $set: { flag: true } }
URepl   == {<<"flag", "true">>}             \* a replacement document, no operator

\* a logged command with no fields: the value of ({})
EmptyCommand ==
    [filter |-> {}, query |-> {}, q |-> {}, u |-> {}, update |-> {}, sort |-> {},
     limit |-> {}, skip |-> {}, pipeline |-> {}, comment |-> {}]

\* a pipeline field: an array of stages, or some other truthy value
PipelineArray(stages) == [isArray |-> TRUE, stages |-> stages]
PipelineOther         == [isArray |-> FALSE, stages |-> <<>>]

\* the command shapes the profiling log holds, old and new logging formats
CommandShapes ==
    { EmptyCommand,
      [EmptyCommand EXCEPT !.filter = {FStatus}],
      [EmptyCommand EXCEPT !.filter = {{}}],
      [EmptyCommand EXCEPT !.query = {FStatus}],
      [EmptyCommand EXCEPT !.filter = {FStatus}, !.sort = {SDate}, !.limit = {1}],
      [EmptyCommand EXCEPT !.filter = {FStatus}, !.sort = {SStatus}, !.skip = {1}],
      [EmptyCommand EXCEPT !.q = {FStatus}, !.u = {USet}],
      [EmptyCommand EXCEPT !.q = {{}}, !.u = {USet}],
      [EmptyCommand EXCEPT !.filter = {FAge}, !.update = {USet}],
      [EmptyCommand EXCEPT !.q = {FStatus}, !.u = {URepl}],
      [EmptyCommand EXCEPT !.filter = {FAge}, !.q = {FStatus}, !.u = {USet}],
      [EmptyCommand EXCEPT !.pipeline = {PipelineArray(<<"$match">>)}],
      [EmptyCommand EXCEPT !.pipeline = {PipelineArray(<<>>)}],
      [EmptyCommand EXCEPT !.pipeline = {PipelineOther}] }

\* namespaces: absent, a string (a sequence of characters), or a truthy non-string
NsAbsent    == [kind |-> "absent", text |-> <<>>]
NsString(t) == [kind |-> "string", text |-> t]
NsOther     == [kind |-> "other",  text |-> <<>>]
Namespaces ==
    { NsAbsent, NsOther, NsString(<<>>), NsString(<<"a">>), NsString(<<"a", ".">>),
      NsString(<<"a", ".", "b">>), NsString(<<"a", ".", "b", ".", "c">>) }
NsGood == NsString(<<"a", ".", "b">>)

\* operation-type tags of profiled operations
OpTypes == {"query", "find", "update", "delete", "remove", "count", "aggregate", "insert"}

\* identifiers: texts that are a 24-digit hexadecimal string, and texts that are not
HexTexts   == {"h1", "h2"}
OtherTexts == {"s1"}
IdTexts    == HexTexts \cup OtherTexts
\* a stored _id: an ObjectId or a plain string
IdValues == [t : {"oid", "str"}, v : IdTexts]

Counts == 0..MaxCount

\* a profiler document
ProfileDoc(id, comment, ns, op, cmd, examined, returned) ==
    [_id |-> id, ns |-> ns, op |-> op,
     command |-> {[cmd EXCEPT !.comment = comment]}, query |-> {},
     docsExamined |-> {examined}, docsReturned |-> {returned}]

DefaultId  == [t |-> "oid", v |-> "h1"]
DefaultCmd == [EmptyCommand EXCEPT !.filter = {FStatus}]

\* the documents the profiling log draws from: every way of identifying a record,
\* every namespace with every operation type, every operation type with every
\* command shape and every pair of historical counters, and the legacy records
\* that carry `query` instead of `command` or neither
ProfileDocs ==
    { ProfileDoc(id, c, NsGood, "find", DefaultCmd, 2, 1) :
          id \in IdValues, c \in {{}} \cup {{t} : t \in IdTexts} }
    \cup
    { ProfileDoc(DefaultId, {}, ns, op, DefaultCmd, 2, 1) :
          ns \in Namespaces, op \in OpTypes }
    \cup
    { ProfileDoc(DefaultId, {}, NsGood, pl[1], pl[2], pl[3], pl[4]) :
          pl \in OpTypes \X CommandShapes \X Counts \X Counts }
    \cup
    { [ProfileDoc(DefaultId, {}, NsGood, op, DefaultCmd, 2, 1)
          EXCEPT !.command = {}, !.query = q] :
          op \in OpTypes, q \in {{}, {[EmptyCommand EXCEPT !.filter = {FStatus}]}} }

\* the profiling logs: empty, one record, or two records that differ in how
\* they can be identified
ProfileLogs ==
    {<<>>} \cup {<<d>> : d \in ProfileDocs}
    \cup
    { <<ProfileDoc(i1, c1, NsGood, "find", DefaultCmd, 2, 1),
        ProfileDoc(i2, {}, NsGood, "count", DefaultCmd, 1, 1)>> :
          i1 \in {[t |-> "oid", v |-> "h2"], [t |-> "str", v |-> "s1"]},
          c1 \in {{}, {"h1"}, {"s1"}},
          i2 \in {[t |-> "oid", v |-> "h1"], [t |-> "str", v |-> "s1"]} }

\* the target collection a namespace "a.b" names, and its documents
DataDb   == <<"a">>
DataColl == <<"b">>
InitialData == { {<<"status", "pending">>}, {<<"status", "done">>} }

\* stage trees an explain call may return
Leaf(name, index) ==
    [stage |-> name, indexName |-> index, docsExamined |-> 0,
     inputStage |-> {}, inputStages |-> {}]
TreeCollScan == Leaf("COLLSCAN", {})
TreeIxScan ==
    [Leaf("FETCH", {}) EXCEPT !.inputStage = {Leaf("IXSCAN", {"status_1"})}]
TreeSortScan ==
    [Leaf("SORT", {}) EXCEPT !.docsExamined = 1, !.inputStage = {TreeCollScan}]
TreeOr ==
    [Leaf("OR", {}) EXCEPT
        !.inputStages = {<<Leaf("IXSCAN", {"status_1"}), Leaf("IXSCAN", {"status_1"})>>}]
Trees == {TreeCollScan, TreeIxScan, TreeSortScan, TreeOr}

\* the stage name and index name of a node: a collection scan, or an index scan
\* over one of two indexes
StageLabels == { <<"COLLSCAN", {}>>, <<"IXSCAN", {"status_1"}>>, <<"IXSCAN", {"age_1"}>> }

\* Stage trees by number of nodes.  trees[k] is the set of stage trees with
\* exactly k nodes and lists[k] the set of non-empty arrays of stage trees with k
\* nodes in total; a node has no child, an inputStage, an inputStages array,
\* or (the code reads the two fields independently) both.

\* the pairs <<inputStage, inputStages>> with m nodes in total
StageChildrenOf(trees, lists, m) ==
    IF m = 0 THEN { <<{}, {}>> }
    ELSE { <<{t}, {}>> : t \in trees[m] }
         \cup { <<{}, {ts}>> : ts \in lists[m] }
         \cup UNION { { <<{t}, {ts}>> : t \in trees[k], ts \in lists[m - k] } :
                      k \in 1..(m - 1) }

\* the stage trees with n nodes, from the smaller ones
StageTreesOf(trees, lists, n) ==
    { [stage |-> l[1], indexName |-> l[2], docsExamined |-> 0,
       inputStage |-> c[1], inputStages |-> c[2]] :
          l \in StageLabels, c \in StageChildrenOf(trees, lists, n - 1) }

\* the non-empty arrays of stage trees with m nodes in total (trees up to m
\* nodes, arrays up to m - 1 nodes)
StageListsOf(trees, lists, m) ==
    UNION { { <<t>> \o rest : t \in trees[k],
                              rest \in IF k = m THEN {<<>>} ELSE lists[m - k] } :
            k \in 1..m }

RECURSIVE StageTreesUpTo(_, _, _)
StageTreesUpTo(trees, lists, n) ==
    IF Len(trees) = n THEN UNION { trees[k] : k \in 1..n }
    ELSE LET more == Append(trees, StageTreesOf(trees, lists, Len(trees) + 1))
         IN  StageTreesUpTo(more, Append(lists, StageListsOf(more, lists, Len(more))), n)

\* larger plans: a merge of a fetched index scan with another index scan, and an
\* OR of an indexed branch, a scanning branch and a second indexed branch
TreeMerge ==
    [Leaf("SORT_MERGE", {}) EXCEPT
        !.inputStages = {<<TreeIxScan, Leaf("IXSCAN", {"age_1"})>>}]
TreeOrScan ==
    [Leaf("OR", {}) EXCEPT
        !.inputStages = {<<TreeIxScan, TreeCollScan, Leaf("IXSCAN", {"age_1"})>>}]

StageTrees == StageTreesUpTo(<<>>, <<>>, MaxNodes) \cup Trees \cup {TreeMerge, TreeOrScan}

\* an explain result with summary counters (absent, or a number) and a stage tree
ExplainResultOf(examined, returned, tree) ==
    [executionStats |->
        {[totalDocsExamined |-> examined, totalDocsReturned |-> returned,
          executionStages |-> {tree}]}]

OptExamined == {{}} \cup {{e} : e \in 0..MaxExamined}
OptReturned == {{}} \cup {{n} : n \in 0..MaxReturned}

\* the explain results and located records the transformation is applied to:
\* every stage tree with fixed counters, and every combination of the explain
\* call's counters with the historical ones over a scanning and an indexed plan
DiagInputs ==
    { [explainResult |-> ExplainResultOf({2}, {1}, t),
       profileDoc    |-> ProfileDoc(DefaultId, {}, NsGood, "find", DefaultCmd, 2, 1)] :
          t \in StageTrees }
    \cup
    { [explainResult |-> ExplainResultOf(c[1], c[2], c[3]),
       profileDoc    |-> ProfileDoc(DefaultId, {}, NsGood, "find", DefaultCmd, c[4], c[5])] :
          c \in OptExamined \X OptReturned \X {TreeCollScan, TreeIxScan}
                   \X (0..MaxExamined) \X (0..MaxReturned) }
    \cup
    \* every command shape over a scanning and an indexed plan, with counters of
    \* a selective and of an unselective execution
    { [explainResult |-> ExplainResultOf({c[1]}, {1}, c[2]),
       profileDoc    |-> ProfileDoc(DefaultId, {}, NsGood, "find", c[3], 2, 1)] :
          c \in {2, MaxExamined} \X {TreeCollScan, TreeIxScan} \X CommandShapes }

\* what an explain call can return: a result without executionStats (as the
\* aggregation explain of some engine versions), or one with summary counters
\* and possibly a stage tree
ExplainResults ==
    { [executionStats |-> {}] }
    \cup
    { [executionStats |->
          {[totalDocsExamined |-> {e}, totalDocsReturned |-> {n}, executionStages |-> t]}] :
          e \in Counts, n \in Counts, t \in {{}} \cup {{x} : x \in Trees} }

---------------------------------------------------------------------------
(* The storage engine and its driver *)

\* collection.findOne(query) on the profiling log: of the records the query
\* selects (given by their positions), the first in natural order; nothing
\* when there is none
FindOne(log, hits) ==
    IF hits = {} THEN {}
    ELSE {log[CHOOSE i \in hits : \A j \in hits : i <= j]}

\* new ObjectId(text) accepts a 24-digit hexadecimal string and throws otherwise
ObjectIdValid(text) == text \in HexTexts
ObjectId(text) == [t |-> "oid", v |-> text]

\* { _id: new ObjectId(queryId) }
MatchesObjectId(doc, queryId) == doc._id = ObjectId(queryId)

\* { $or: [ { _id: queryId }, { 'command.comment': queryId } ] }
MatchesFallback(doc, queryId) ==
    \/ doc._id = [t |-> "str", v |-> queryId]
    \/ doc.command # {} /\ TheOne(doc.command).comment = {queryId}

\* a filter of equality conditions selects the documents that carry them all
Selected(filter, contents) == {d \in contents : filter \subseteq d}

\* an update document is accepted by the driver only if it consists of update
\* operators
HasAtomicOperators(update) == update # {} /\ \A kv \in update : kv[1] = "$set"

\* { $set: { f: true } } applied to one document
ApplySet(d, update) ==
    LET fields == {kv[2] : kv \in update}
    IN  {kv \in d : kv[1] \notin fields} \cup {<<f, "true">> : f \in fields}

\* the effect of a mutating operation once the storage engine runs it
ServerEffect(op, contents) ==
    IF op.db # DataDb \/ op.coll # DataColl THEN contents
    ELSE IF op.kind = "updateMany"
    THEN (contents \ Selected(op.filter, contents))
         \cup {ApplySet(d, op.update) : d \in Selected(op.filter, contents)}
    ELSE IF op.kind = "deleteMany"
    THEN contents \ Selected(op.filter, contents)
    ELSE contents

MutatingKinds == {"updateMany", "deleteMany"}

---------------------------------------------------------------------------
(* GET /api/profiler/explain *)

\* error messages
MsgNoQueryId     == "Parameter queryId is required"
MsgNotFound      == "No profiler data found for queryId"
MsgNoNamespace   == "Cannot determine collection from profiler data"
MsgBadNamespace  == "Cannot parse collection from namespace"
MsgNotAFunction  == "explain is not a function"
MsgSplit         == "namespace.split is not a function"
MsgBadUpdate     == "Update document requires atomic operators"
MsgBadPipeline   == "Invalid aggregation pipeline"
MsgStorage       == "storage engine error"
MsgUndefined     == "Cannot read properties of undefined"

Requests == {"r1"}

IdleReq ==
    [pc |-> "idle", queryId |-> {}, profileDoc |-> {}, lookups |-> <<>>,
     explainCalls |-> <<>>, stage |-> "none", response |-> <<>>]

\* variant: the handler falls through after answering and answers again
SendTwice(rq, status, success, message, body) ==
    [rq EXCEPT !.pc = "done",
               !.response = @ \o << [status |-> status, success |-> success,
                                     message |-> message, data |-> body],
                                    [status |-> 500, success |-> "none",
                                     message |-> message, data |-> {}] >>]

\* res.status(code).json(body) / res.json(body): the response is appended, so a
\* second send on the same request would be visible
Send(rq, status, success, message, body) ==
    [rq EXCEPT !.pc = "done",
               !.response = Append(@, [status |-> status, success |-> success,
                                       message |-> message, data |-> body])]

\* const command = profileDoc.command || profileDoc.query || {}
CommandOf(doc) == Dflt(OrObj(doc.command, doc.query), EmptyCommand)

\* const [dbName, collectionName] = namespace.split('.', 2)
NamespaceParts(ns) == Split(ns.text, ".", 2)
DbNameOf(ns) == NamespaceParts(ns)[1]

\* variant: a namespace without separator names a collection of its own name
CollectionNameOrWhole(ns) ==
    IF Len(NamespaceParts(ns)) >= 2 THEN {NamespaceParts(ns)[2]} ELSE {ns.text}
CollectionNameOf(ns) ==
    IF Len(NamespaceParts(ns)) >= 2 THEN {NamespaceParts(ns)[2]} ELSE {}

\* the context every response body after the Locator carries
ContextOf(rq, doc) ==
    [queryId |-> TheOne(rq.queryId), namespace |-> doc.ns, operation |-> doc.op,
     originalQuery |-> CommandOf(doc)]

\* variant: the inner catch block answers like a success
PartialFlaggedSuccess(rq, doc, message, stage) ==
    [Send(rq, 200, "true", message,
          {[context |-> ContextOf(rq, doc), explainPlan |-> {}]})
       EXCEPT !.stage = stage]

\* variant: no inner catch block, the outer one answers
PartialAborts(rq, doc, message, stage) ==
    [Send(rq, 500, "none", message, {}) EXCEPT !.stage = stage]

\* the partial result of the inner catch block
PartialResult(rq, doc, message, stage) ==
    [Send(rq, 200, "false", message,
          {[context |-> ContextOf(rq, doc), explainPlan |-> {}]})
       EXCEPT !.stage = stage]

\* variant: the missing record is reported from inside the explain block, as a
\* partial result
NotFoundAsPartial(rq) ==
    [Send(rq, 200, "false", MsgNotFound,
          {[context |-> [queryId |-> TheOne(rq.queryId), namespace |-> NsAbsent,
                         operation |-> "unknown", originalQuery |-> EmptyCommand],
            explainPlan |-> {}]})
       EXCEPT !.stage = "locate"]

\* if (!profileDoc) return res.status(404).json(...)
NotFoundResponse(rq) ==
    [Send(rq, 404, "none", MsgNotFound, {}) EXCEPT !.stage = "locate"]

\* variant: an aggregate without a usable pipeline is explained with an empty one
AggregateBestEffort(base, command) ==
    {[base EXCEPT !.kind = "aggregate",
                  !.pipeline = IF command.pipeline # {} /\ TheOne(command.pipeline).isArray
                               THEN TheOne(command.pipeline).stages ELSE <<>>]}

\* case 'aggregate': the pipeline is explained if command.pipeline is truthy and
\* an array, otherwise an Error('Invalid aggregation pipeline') is thrown
AggregateRequestOf(base, command) ==
    IF command.pipeline # {} /\ TheOne(command.pipeline).isArray
    THEN {[base EXCEPT !.kind = "aggregate",
                       !.pipeline = TheOne(command.pipeline).stages]}
    ELSE {}

\* the explain request the switch builds for the operation types whose driver
\* call returns a cursor (find, aggregate); nothing for the others
ExplainRequestOf(doc) ==
    LET command == CommandOf(doc)
        base == [kind |-> "find", db |-> DbNameOf(doc.ns),
                 coll |-> TheOne(CollectionNameOf(doc.ns)),
                 filter |-> {}, sort |-> {}, limit |-> 0, skip |-> 0,
                 pipeline |-> <<>>]
    IN  IF doc.op \in {"query", "find"}
        THEN {[base EXCEPT !.filter = Dflt(OrObj(command.filter, command.query), {}),
                           !.sort   = Dflt(command.sort, {}),
                           !.limit  = Dflt(OrNum(command.limit, {}), 0),
                           !.skip   = Dflt(OrNum(command.skip, {}), 0)]}
        ELSE IF doc.op = "aggregate"
        THEN AggregateRequestOf(base, command)
        ELSE IF doc.op \in {"update", "delete", "remove", "count"}
        THEN {}
        ELSE {[base EXCEPT !.filter = Dflt(OrObj(command.filter, command.query), {})]}

\* variant: update and delete prefer the alias `filter` to the alias `q`
DriverCallFilterFirst(doc) ==
    LET command == CommandOf(doc)
        base == [kind |-> "updateMany", db |-> DbNameOf(doc.ns),
                 coll |-> TheOne(CollectionNameOf(doc.ns)),
                 filter |-> {}, update |-> {}]
    IN  IF doc.op = "update"
        THEN {[base EXCEPT !.filter = Dflt(OrObj(command.filter, command.q), {}),
                           !.update = Dflt(OrObj(command.u, command.update), {})]}
        ELSE IF doc.op \in {"delete", "remove"}
        THEN {[base EXCEPT !.kind = "deleteMany",
                           !.filter = Dflt(OrObj(command.filter, command.q), {})]}
        ELSE IF doc.op = "count"
        THEN {[base EXCEPT !.kind = "countDocuments",
                           !.filter = Dflt(OrObj(command.query, command.filter), {})]}
        ELSE {}

\* the operation the switch hands to a driver method that returns a promise
\* (updateMany, deleteMany, countDocuments): the driver sends it on the call
DriverCallOf(doc) ==
    LET command == CommandOf(doc)
        base == [kind |-> "updateMany", db |-> DbNameOf(doc.ns),
                 coll |-> TheOne(CollectionNameOf(doc.ns)),
                 filter |-> {}, update |-> {}]
    IN  IF doc.op = "update"
        THEN {[base EXCEPT !.filter = Dflt(OrObj(command.q, command.filter), {}),
                           !.update = Dflt(OrObj(command.u, command.update), {})]}
        ELSE IF doc.op \in {"delete", "remove"}
        THEN {[base EXCEPT !.kind = "deleteMany",
                           !.filter = Dflt(OrObj(command.q, command.filter), {})]}
        ELSE IF doc.op = "count"
        THEN {[base EXCEPT !.kind = "countDocuments",
                           !.filter = Dflt(OrObj(command.query, command.filter), {})]}
        ELSE {}

\* whether the driver sends the operation: updateMany refuses an update
\* document without operators before anything is sent
DriverSends(call) == call.kind = "updateMany" => HasAtomicOperators(call.update)

\* the explainPlan of a successful response: the transformation of the explain
\* result of a located record
ExplainPlanOf(explainResult, doc) ==
    [performance     |-> PerformanceOf(explainResult, doc),
     recommendations |-> generateIndexRecommendations(explainResult, CommandOf(doc)),
     stages          |-> extractExecutionStages(explainResult),
     executionStats  |-> StatsOf(explainResult)]

\* the query string of a request: no queryId, an empty one, or an identifier
QueryInputs == {{}} \cup {{t} : t \in IdTexts \cup {""}}

\* the synchronous part of the handler from the located record to the first
\* await inside the switch (or to the response, when there is none)
AfterLocate(r, rq, found) ==
    IF found = {}
    THEN /\ req' = [req EXCEPT ![r] = NotFoundResponse(rq)]
         /\ UNCHANGED <<inflight, dispatched>>
    ELSE
    LET doc == TheOne(found)
        at  == [rq EXCEPT !.profileDoc = found]
    IN
    IF doc.ns.kind = "absent" \/ (doc.ns.kind = "string" /\ doc.ns.text = <<>>)
    THEN /\ req' = [req EXCEPT ![r] =
                      [Send(at, 400, "none", MsgNoNamespace, {}) EXCEPT !.stage = "namespace"]]
         /\ UNCHANGED <<inflight, dispatched>>
    ELSE IF doc.ns.kind = "other"
    THEN \* namespace.split throws a TypeError: the outer catch answers
         /\ req' = [req EXCEPT ![r] =
                      [Send(at, 500, "none", MsgSplit, {}) EXCEPT !.stage = "namespace"]]
         /\ UNCHANGED <<inflight, dispatched>>
    ELSE IF CollectionNameOf(doc.ns) = {} \/ CollectionNameOf(doc.ns) = {<<>>}
    THEN /\ req' = [req EXCEPT ![r] =
                      [Send(at, 400, "none", MsgBadNamespace, {}) EXCEPT !.stage = "namespace"]]
         /\ UNCHANGED <<inflight, dispatched>>
    ELSE IF ExplainRequestOf(doc) # {}
    THEN \* a cursor's explain('executionStats') is sent and awaited
         /\ req' = [req EXCEPT ![r] =
                      [at EXCEPT !.pc = "explaining",
                                 !.explainCalls = Append(@, TheOne(ExplainRequestOf(doc)))]]
         /\ UNCHANGED <<inflight, dispatched>>
    ELSE IF DriverCallOf(doc) # {}
    THEN \* updateMany / deleteMany / countDocuments return a promise, which has
         \* no explain method: the operation is sent, then a TypeError is thrown
         LET call == TheOne(DriverCallOf(doc))
         IN  IF DriverSends(call)
             THEN /\ dispatched' = dispatched \cup {call}
                  /\ inflight' = IF call.kind \in MutatingKinds
                                 THEN inflight \cup {call} ELSE inflight
                  /\ req' = [req EXCEPT ![r] =
                               PartialResult(at, doc, MsgNotAFunction, "reconstruct")]
             ELSE \* the driver rejects the update document, by throwing or by
                  \* a rejected promise, depending on its version
                  /\ \E m \in {MsgBadUpdate, MsgNotAFunction} :
                        req' = [req EXCEPT ![r] = PartialResult(at, doc, m, "reconstruct")]
                  /\ UNCHANGED <<inflight, dispatched>>
    ELSE \* aggregate without an array in command.pipeline
         /\ req' = [req EXCEPT ![r] =
                      PartialResult(at, doc, MsgBadPipeline, "reconstruct")]
         /\ UNCHANGED <<inflight, dispatched>>

\* the request arrives: validation of the query string
Start(r) ==
    /\ req[r].pc = "idle"
    /\ \E q \in QueryInputs :
          req' = [req EXCEPT ![r] =
                    IF q = {} \/ q = {""}
                    THEN [Send([@ EXCEPT !.queryId = q], 400, "none", MsgNoQueryId, {})
                            EXCEPT !.stage = "validate"]
                    ELSE [@ EXCEPT !.pc = "byId", !.queryId = q]]
    /\ UNCHANGED <<profile, data, inflight, dispatched, diag, api, dbmod>>

\* first strategy: findOne({ _id: new ObjectId(queryId) }); the catch block
\* leads to the second strategy
LookupById(r) ==
    LET rq == req[r]
        id == TheOne(rq.queryId)
    IN  /\ rq.pc = "byId"
        /\ IF ~ObjectIdValid(id)
           THEN /\ req' = [req EXCEPT ![r].pc = "fallback"]
                /\ UNCHANGED <<inflight, dispatched>>
           ELSE \E throws \in BOOLEAN :
                  LET asked == [rq EXCEPT !.lookups = Append(@, "objectId")]
                  IN  IF throws
                      THEN /\ req' = [req EXCEPT ![r] = [asked EXCEPT !.pc = "fallback"]]
                           /\ UNCHANGED <<inflight, dispatched>>
                      ELSE AfterLocate(r, asked,
                              FindOne(profile, {i \in 1..Len(profile) :
                                                   MatchesObjectId(profile[i], id)}))
        /\ UNCHANGED <<profile, data, diag, api, dbmod>>

\* second strategy: findOne({ $or: [{ _id: queryId }, { 'command.comment': queryId }] })
LookupFallback(r) ==
    LET rq == req[r]
        id == TheOne(rq.queryId)
        asked == [rq EXCEPT !.lookups = Append(@, "fallback")]
    IN  /\ rq.pc = "fallback"
        /\ \E throws \in BOOLEAN :
              IF throws
              THEN /\ req' = [req EXCEPT ![r] =
                                [Send(asked, 500, "none", MsgStorage, {})
                                   EXCEPT !.stage = "locate"]]
                   /\ UNCHANGED <<inflight, dispatched>>
              ELSE AfterLocate(r, asked,
                      FindOne(profile, {i \in 1..Len(profile) :
                                           MatchesFallback(profile[i], id)}))
        /\ UNCHANGED <<profile, data, diag, api, dbmod>>

\* the explain call comes back: it throws, returns nothing, or returns a result
\* that is transformed into the response
ExplainReturns(r) ==
    LET rq  == req[r]
        doc == TheOne(rq.profileDoc)
    IN  /\ rq.pc = "explaining"
        /\ \/ req' = [req EXCEPT ![r] = PartialResult(rq, doc, MsgStorage, "explain")]
           \/ req' = [req EXCEPT ![r] = PartialResult(rq, doc, MsgUndefined, "extract")]
           \/ \E explainResult \in ExplainResults :
                 req' = [req EXCEPT ![r] =
                    [Send(rq, 200, "true", "",
                          {[context |-> ContextOf(rq, doc),
                            explainPlan |-> {ExplainPlanOf(explainResult, doc)}]})
                       EXCEPT !.stage = "recommended"]]
        /\ UNCHANGED <<profile, data, inflight, dispatched, diag, api, dbmod>>

\* the storage engine runs a mutating operation it was sent
ServerApply ==
    /\ \E op \in inflight :
          /\ data' = ServerEffect(op, data)
          /\ inflight' = inflight \ {op}
    /\ UNCHANGED <<profile, dispatched, req, diag, api, dbmod>>

\* the response has been delivered; the next request may arrive
Finish(r) ==
    /\ req[r].pc = "done"
    /\ req' = [req EXCEPT ![r] = IdleReq]
    /\ UNCHANGED <<profile, data, inflight, dispatched, diag, api, dbmod>>

\* no explain result under transformation, no request to a time-ranged endpoint
NoDiag == [explainResult |-> {}, profileDoc |-> {}, explainPlan |-> {}]
NoApi  == [pc |-> "idle", endpoint |-> "none", params |-> {}, storage |-> <<>>,
           response |-> <<>>]

\* the callers of connectToDatabase
Callers == {"c1", "c2"}
IdleCaller == [pc |-> "idle", own |-> 0, result |-> 0]

\* let client = null; let db = null: the module as loaded. Clients are numbered
\* in the order of their creation, 0 stands for null, and the handle that
\* client k's db(dbName) gives is written k
NoDb ==
    [client |-> 0, db |-> 0, clients |-> <<>>,
     callers |-> [c \in Callers |-> IdleCaller],
     closer |-> [pc |-> "idle", target |-> 0],
     ready |-> FALSE,
     got |-> [called |-> FALSE, throws |-> FALSE, handle |-> 0]]

Init ==
    /\ profile \in ProfileLogs
    /\ data = InitialData
    /\ inflight = {}
    /\ dispatched = {}
    /\ req = [r \in Requests |-> IdleReq]
    /\ diag = NoDiag
    /\ api = NoApi
    /\ dbmod = NoDb

Next ==
    \/ \E r \in Requests : Start(r)
    \/ \E r \in Requests : LookupById(r)
    \/ \E r \in Requests : LookupFallback(r)
    \/ \E r \in Requests : ExplainReturns(r)
    \/ \E r \in Requests : Finish(r)
    \/ ServerApply

Spec == Init /\ [][Next]_vars

\* the event loop runs every continuation that is ready: a lookup that was
\* issued is answered, a response is delivered, the engine runs what it was
\* sent. The explain call is awaited without maxTimeMS or timer, so nothing
\* in the handler makes its reply arrive: ExplainReturns has no fairness.
HandlerFairness ==
    /\ \A r \in Requests : WF_vars(LookupById(r))
    /\ \A r \in Requests : WF_vars(LookupFallback(r))
    /\ \A r \in Requests : WF_vars(Finish(r))
    /\ WF_vars(ServerApply)

SpecLive == Init /\ [][Next]_vars /\ HandlerFairness

---------------------------------------------------------------------------
(* Two explain requests in flight at once *)

\* Express runs the handler of a second request while the first one awaits a
\* lookup or an explain call
ConcurrentRequests == {"r1", "r2"}

\* a profiling log with a query, an update and a delete on the same collection
ConcurrentLog ==
    << ProfileDoc([t |-> "oid", v |-> "h1"], {}, NsGood, "find", DefaultCmd, 2, 1),
       ProfileDoc([t |-> "oid", v |-> "h2"], {}, NsGood, "update",
                  [EmptyCommand EXCEPT !.q = {FStatus}, !.u = {USet}], 1, 0),
       ProfileDoc([t |-> "str", v |-> "s1"], {}, NsGood, "delete",
                  [EmptyCommand EXCEPT !.q = {FStatus}], 1, 0) >>

InitConcurrent ==
    /\ profile = ConcurrentLog
    /\ data = InitialData
    /\ inflight = {}
    /\ dispatched = {}
    /\ req = [r \in ConcurrentRequests |-> IdleReq]
    /\ diag = NoDiag
    /\ api = NoApi
    /\ dbmod = NoDb

\* every step of the handler, taken by either request
NextConcurrent ==
    \/ \E r \in ConcurrentRequests : Start(r)
    \/ \E r \in ConcurrentRequests : LookupById(r)
    \/ \E r \in ConcurrentRequests : LookupFallback(r)
    \/ \E r \in ConcurrentRequests : ExplainReturns(r)
    \/ \E r \in ConcurrentRequests : Finish(r)
    \/ ServerApply

SpecConcurrent == InitConcurrent /\ [][NextConcurrent]_vars

---------------------------------------------------------------------------
(* The time-ranged endpoints: GET /api/profiler and the analytics routes *)

\* the GET endpoints that take from and to in the query string, and the POST
\* endpoint that takes two periods in its body
RangeEndpoints ==
    {"profiler", "performance-trends", "operation-breakdown", "collection-performance"}
CompareEndpoint == "compare-periods"

\* a from / to value: absent, the empty string, or a date text
DateInputs == {{}, {""}, {"2025-01-01"}}

\* req.query of a GET request; req.body of the POST request, in which a period
\* is absent or an object with from and to
RangeQueries == [from : DateInputs, to : DateInputs]
PeriodInputs == {{}} \cup {{pd} : pd \in RangeQueries}
CompareBodies == [beforePeriod : PeriodInputs, afterPeriod : PeriodInputs]

\* !value for a string-valued optional field: absent and "" are falsy
Falsy(opt) == opt = {} \/ opt = {""}

\* variant: only `from` is validated
MissingFrom(query) == Falsy(query.from)

\* if (!from || !to)
MissingFromOrTo(query) == Falsy(query.from) \/ Falsy(query.to)

\* the destructuring of req.body throws a TypeError when a period is undefined
DestructuringThrows(body) == body.beforePeriod = {} \/ body.afterPeriod = {}

\* if (!beforeFrom || !beforeTo || !afterFrom || !afterTo)
MissingPeriodDates(body) ==
    \/ MissingFromOrTo(TheOne(body.beforePeriod))
    \/ MissingFromOrTo(TheOne(body.afterPeriod))

\* the storage call each endpoint awaits first
FirstCallOf(endpoint) == IF endpoint = "profiler" THEN "find" ELSE "aggregate"

MsgMissingParams  == "Missing required parameters"
MsgDestructure    == "Cannot destructure property 'from' of undefined"
MsgNotInitialized == "Database not initialized"

\* res.status(code).json(body) of these handlers
ApiSend(rq, status, message) ==
    [rq EXCEPT !.pc = "done",
               !.response = Append(@, [status |-> status, message |-> message])]

\* a request arrives at one of the endpoints
ApiReceive ==
    /\ api.pc = "idle"
    /\ \/ \E e \in RangeEndpoints, q \in RangeQueries :
             api' = [api EXCEPT !.pc = "validate", !.endpoint = e, !.params = {q}]
       \/ \E b \in CompareBodies :
             api' = [api EXCEPT !.pc = "validate", !.endpoint = CompareEndpoint,
                                !.params = {b}]
    /\ UNCHANGED <<profile, data, inflight, dispatched, req, diag, dbmod>>

\* the synchronous part of a handler: the parameters are read and validated,
\* then getDatabase() is called and the first storage call is issued
ApiValidate ==
    /\ api.pc = "validate"
    /\ LET params == TheOne(api.params)
           invalid ==
               IF api.endpoint = CompareEndpoint
               THEN IF DestructuringThrows(params) THEN {<<500, MsgDestructure>>}
                    ELSE IF MissingPeriodDates(params) THEN {<<400, MsgMissingParams>>}
                    ELSE {}
               ELSE IF MissingFromOrTo(params) THEN {<<400, MsgMissingParams>>}
                    ELSE {}
       IN  IF invalid # {}
           THEN api' = ApiSend(api, TheOne(invalid)[1], TheOne(invalid)[2])
           ELSE \E initialized \in BOOLEAN :
                   LET got == [api EXCEPT !.storage = Append(@, "getDatabase")]
                   IN  IF ~initialized
                       THEN api' = ApiSend(got, 500, MsgNotInitialized)
                       ELSE api' = [got EXCEPT
                                      !.pc = "querying",
                                      !.storage = Append(@, FirstCallOf(api.endpoint))]
    /\ UNCHANGED <<profile, data, inflight, dispatched, req, diag, dbmod>>

\* an awaited storage call comes back: it throws, or its result is used; the
\* comparison of periods issues its second aggregation after the first
ApiQueryReturns ==
    /\ api.pc = "querying"
    /\ \/ api' = ApiSend(api, 500, MsgStorage)
       \/ IF api.endpoint = CompareEndpoint /\ Len(api.storage) = 2
          THEN api' = [api EXCEPT !.storage = Append(@, "aggregate")]
          ELSE api' = ApiSend(api, 200, "")
    /\ UNCHANGED <<profile, data, inflight, dispatched, req, diag, dbmod>>

\* the response has been delivered
ApiFinish ==
    /\ api.pc = "done"
    /\ api' = NoApi
    /\ UNCHANGED <<profile, data, inflight, dispatched, req, diag, dbmod>>

InitApi ==
    /\ profile = ConcurrentLog
    /\ data = InitialData
    /\ inflight = {}
    /\ dispatched = {}
    /\ req = [r \in Requests |-> IdleReq]
    /\ diag = NoDiag
    /\ api = NoApi
    /\ dbmod = NoDb

\* the server handles a request to a time-ranged endpoint and an explain request
NextApi ==
    \/ ApiReceive
    \/ ApiValidate
    \/ ApiQueryReturns
    \/ ApiFinish
    \/ Next

SpecApi == InitApi /\ [][NextApi]_vars

---------------------------------------------------------------------------
(* The transformation of an explain result, on its own *)

\* lines 249-259 of the handler applied to an explain result and the located
\* record: the extractors and the recommendation rules build the explainPlan
Transform ==
    /\ diag.explainResult # {} /\ diag.explainPlan = {}
    /\ diag' = [diag EXCEPT !.explainPlan =
                   {ExplainPlanOf(TheOne(diag.explainResult), TheOne(diag.profileDoc))}]
    /\ UNCHANGED <<profile, data, inflight, dispatched, req, api, dbmod>>

InitDiag ==
    /\ profile = <<>>
    /\ data = InitialData
    /\ inflight = {}
    /\ dispatched = {}
    /\ req = [r \in Requests |-> IdleReq]
    /\ \E i \in DiagInputs :
          diag = [explainResult |-> {i.explainResult}, profileDoc |-> {i.profileDoc},
                  explainPlan |-> {}]
    /\ api = NoApi
    /\ dbmod = NoDb

NextDiag == Transform

SpecDiag == InitDiag /\ [][NextDiag]_vars

---------------------------------------------------------------------------
(* Properties of the explain route *)

Done(r)     == req[r].pc = "done"
Resp(r)     == req[r].response[Len(req[r].response)]
Supplied(r) == req[r].queryId # {} /\ req[r].queryId # {""}
Located(r)  == req[r].profileDoc # {}
LocatedDoc(r) == TheOne(req[r].profileDoc)
HasPlan(r)  == Resp(r).data # {} /\ TheOne(Resp(r).data).explainPlan # {}
PlanOf(r)   == TheOne(TheOne(Resp(r).data).explainPlan)

\* the record can be identified by id under some lookup strategy
IdentifiedBy(doc, id) ==
    \/ doc._id.v = id /\ (doc._id.t = "oid" => id \in HexTexts)
    \/ doc.command # {} /\ TheOne(doc.command).comment = {id}

\* the record is reachable by the second strategy and not by the first
FallbackOnly(id) ==
    /\ \E i \in 1..Len(profile) :
          \/ profile[i]._id = [t |-> "str", v |-> id]
          \/ profile[i].command # {} /\ TheOne(profile[i].command).comment = {id}
    /\ \A i \in 1..Len(profile) : profile[i]._id # [t |-> "oid", v |-> id]

\* a namespace string with a '.' that is followed by a non-empty collection part
WellFormedNs(ns) ==
    /\ ns.kind = "string"
    /\ \E i \in 1..(Len(ns.text) - 1) :
          /\ ns.text[i] = "."
          /\ \A k \in 1..(i - 1) : ns.text[k] # "."
          /\ ns.text[i + 1] # "."

\* C1: diagnosis never mutates: no update or delete is ever sent to the target
\* collection, and its contents stay what they were before the requests.
C1_NoMutation ==
    /\ \A op \in dispatched : op.kind \notin MutatingKinds
    /\ data = InitialData

\* C2: a record that only the fallback strategy can reach (by literal id or by
\* command.comment) is always found: such a request never ends in 404.
C2_FallbackAlwaysFinds ==
    \A r \in Requests :
        (Done(r) /\ Supplied(r) /\ FallbackOnly(TheOne(req[r].queryId)))
            => Resp(r).status # 404

\* C3 as stated: when no record matches the identifier under any strategy the
\* request ends in 404, with no body and no explain call.
C3_NoMatchIs404 ==
    \A r \in Requests :
        (Done(r) /\ Supplied(r)
           /\ \A i \in 1..Len(profile) : ~IdentifiedBy(profile[i], TheOne(req[r].queryId)))
            => /\ Resp(r).status = 404
               /\ Resp(r).data = {}
               /\ req[r].explainCalls = <<>>

\* C3 amended: when no record matches the identifier under any strategy, no
\* explain call is ever issued and the one response has no body; it is the 404,
\* or the 500 of a fallback lookup that raised a storage error.
C3_NoMatchIsNotFoundOrLookupError ==
    \A r \in Requests :
        (Supplied(r)
           /\ \A i \in 1..Len(profile) : ~IdentifiedBy(profile[i], TheOne(req[r].queryId)))
            => /\ req[r].explainCalls = <<>>
               /\ req[r].pc # "explaining"
               /\ ~Located(r)
               /\ Done(r) =>
                    /\ Len(req[r].response) = 1
                    /\ Resp(r).data = {}
                    /\ Resp(r).success = "none"
                    /\ \/ Resp(r).status = 404
                       \/ /\ Resp(r).status = 500
                          /\ Resp(r).message = MsgStorage
                          /\ req[r].lookups[Len(req[r].lookups)] = "fallback"

\* C3 witness: both strategies were tried, neither found a record, the answer is 404
C3_Witness ==
    \E r \in Requests :
        /\ Done(r) /\ Supplied(r)
        /\ profile # <<>>
        /\ \A i \in 1..Len(profile) : ~IdentifiedBy(profile[i], TheOne(req[r].queryId))
        /\ req[r].lookups # <<>>
        /\ req[r].lookups[Len(req[r].lookups)] = "fallback"
        /\ Resp(r).status = 404

\* the messages an error of each stage carries
StageMessages(stage) ==
    IF stage = "reconstruct" THEN {MsgNotAFunction, MsgBadUpdate, MsgBadPipeline}
    ELSE IF stage = "explain" THEN {MsgStorage}
    ELSE IF stage = "extract" THEN {MsgUndefined}
    ELSE {}

\* the logged command of a record
LoggedCommand(doc) ==
    IF doc.command # {} THEN TheOne(doc.command)
    ELSE IF doc.query # {} THEN TheOne(doc.query)
    ELSE EmptyCommand

\* C4: a failure of reconstruction, explain, extraction or recommendation for a
\* located operation yields the partial result: success=false, explainPlan null,
\* the error's message, and the operation's identifier, namespace, type and
\* command; and success=true exactly when the diagnostic is not null.
C4_PartialResult ==
    \A r \in Requests :
        Done(r) =>
            /\ req[r].stage \in {"reconstruct", "explain", "extract"} =>
                  /\ Located(r)
                  /\ Len(req[r].response) = 1
                  /\ Resp(r).status = 200
                  /\ Resp(r).success = "false"
                  /\ Resp(r).message \in StageMessages(req[r].stage)
                  /\ Resp(r).data =
                        {[context |-> [queryId       |-> TheOne(req[r].queryId),
                                       namespace     |-> LocatedDoc(r).ns,
                                       operation     |-> LocatedDoc(r).op,
                                       originalQuery |-> LoggedCommand(LocatedDoc(r))],
                          explainPlan |-> {}]}
            /\ (Resp(r).success = "true") <=> HasPlan(r)

\* C4 witness: the explain call of a find operation failed and the request got
\* the partial result
C4_Witness ==
    \E r \in Requests :
        /\ Done(r) /\ req[r].stage = "explain"
        /\ LocatedDoc(r).op = "find"
        /\ Resp(r).success = "false"
        /\ ~HasPlan(r)

\* C5 as stated: once a record is located, every failure ends in a response
\* body that carries the operation context.
C5_OnlyNotFoundAborts ==
    \A r \in Requests :
        (Done(r) /\ Located(r)) =>
            /\ Resp(r).data # {}
            /\ Resp(r).success \in {"true", "false"}

\* C5 amended: once a record is located and its namespace is a string with a
\* non-empty collection part, every later failure ends in the partial result;
\* the responses without a body are those of the validation, of the Locator and
\* of the namespace resolution.
C5_AfterNamespaceOnlyPartial ==
    \A r \in Requests :
        Done(r) =>
            /\ (Located(r) /\ WellFormedNs(LocatedDoc(r).ns)) =>
                  /\ Resp(r).status = 200
                  /\ Resp(r).data # {}
                  /\ TheOne(Resp(r).data).context.operation = LocatedDoc(r).op
                  /\ Resp(r).success \in {"true", "false"}
                  /\ Resp(r).success = "false" => TheOne(Resp(r).data).explainPlan = {}
            /\ Resp(r).data = {} =>
                  \/ ~Supplied(r)
                  \/ ~Located(r)
                  \/ ~WellFormedNs(LocatedDoc(r).ns)

\* C5 witness: an aggregate record with a well-formed namespace whose
\* reconstruction failed got the partial result
C5_Witness ==
    \E r \in Requests :
        /\ Done(r) /\ Located(r) /\ WellFormedNs(LocatedDoc(r).ns)
        /\ req[r].stage = "reconstruct"
        /\ LocatedDoc(r).op = "aggregate"
        /\ Resp(r).success = "false"
        /\ Resp(r).data # {}

\* the logged command carries no pipeline that is a sequence
NoPipelineSequence(doc) ==
    \/ LoggedCommand(doc).pipeline = {}
    \/ ~TheOne(LoggedCommand(doc).pipeline).isArray

\* C6: for a located aggregate operation (namespace resolved) whose logged
\* command has no pipeline field, or a pipeline that is not a sequence, no
\* explain call is issued and the request ends as a partial result carrying
\* the reconstruction error.
C6_AggregateWithoutPipelineFails ==
    \A r \in Requests :
        (Located(r) /\ WellFormedNs(LocatedDoc(r).ns)
           /\ LocatedDoc(r).op = "aggregate" /\ NoPipelineSequence(LocatedDoc(r)))
            => /\ req[r].explainCalls = <<>>
               /\ Done(r)
               /\ Resp(r).status = 200
               /\ Resp(r).success = "false"
               /\ Resp(r).message = MsgBadPipeline
               /\ Resp(r).data # {}
               /\ TheOne(Resp(r).data).explainPlan = {}

\* C6 witness: an aggregate record whose pipeline field is not an array ended
\* as a partial result
C6_Witness ==
    \E r \in Requests :
        /\ Done(r) /\ Located(r) /\ WellFormedNs(LocatedDoc(r).ns)
        /\ LocatedDoc(r).op = "aggregate"
        /\ LoggedCommand(LocatedDoc(r)).pipeline = {PipelineOther}
        /\ Resp(r).message = MsgBadPipeline

\* C7: every aggregate explain request handed to the Plan Executor has a
\* non-empty pipeline.
C7_AggregatePipelineNonEmpty ==
    \A r \in Requests :
        \A i \in 1..Len(req[r].explainCalls) :
            req[r].explainCalls[i].kind = "aggregate"
                => req[r].explainCalls[i].pipeline # <<>>

\* C8: every Diagnostic produced reports an efficiency between 0 and 100.
C8_EfficiencyInRange ==
    \A r \in Requests :
        (Done(r) /\ HasPlan(r))
            => /\ PlanOf(r).performance.efficiency >= 0
               /\ PlanOf(r).performance.efficiency <= 100

\* C9: a Diagnostic whose performance block reports totalDocsExamined = 0 has
\* efficiency 100, whatever its totalDocsReturned.
C9_NothingExaminedIsFullyEfficient ==
    \A r \in Requests :
        (Done(r) /\ HasPlan(r) /\ PlanOf(r).performance.totalDocsExamined = 0)
            => PlanOf(r).performance.efficiency = 100

\* C9 witness: a Diagnostic that reports nothing examined and something returned
C9_Witness ==
    \E r \in Requests :
        /\ Done(r) /\ HasPlan(r)
        /\ PlanOf(r).performance.totalDocsExamined = 0
        /\ PlanOf(r).performance.totalDocsReturned > 0
        /\ PlanOf(r).performance.efficiency = 100

\* C10: the efficiency of a Diagnostic is a function of the explain result's
\* top-level counters alone: 100 when its totalDocsExamined is 0, 0 when that is
\* positive and its totalDocsReturned is 0, the rounded percentage otherwise.
C10_EfficiencyFromExplainCounters ==
    \A r \in Requests :
        (Done(r) /\ HasPlan(r)
           /\ PlanOf(r).executionStats.totalDocsExamined # {}
           /\ PlanOf(r).executionStats.totalDocsReturned # {})
            => LET examined == TheOne(PlanOf(r).executionStats.totalDocsExamined)
                   returned == TheOne(PlanOf(r).executionStats.totalDocsReturned)
               IN  PlanOf(r).performance.efficiency =
                      IF examined = 0 THEN 100
                      ELSE IF returned = 0 THEN 0
                      ELSE (200 * returned + examined) \div (2 * examined)

---------------------------------------------------------------------------
(* Properties of the Diagnostic Extractor *)

\* the children of a node, in their given order: the single child, then the
\* elements of the child list
Children(node) ==
    (IF node.inputStage # {} THEN <<TheOne(node.inputStage)>> ELSE <<>>)
    \o (IF node.inputStages # {} THEN TheOne(node.inputStages) ELSE <<>>)

\* the nodes of a tree, each named by the path of child positions leading to it
RECURSIVE PathsOf(_)
PathsOf(node) ==
    {<<>>} \cup UNION { { <<i>> \o p : p \in PathsOf(Children(node)[i]) } :
                        i \in 1..Len(Children(node)) }

RECURSIVE NodeAt(_, _)
NodeAt(node, path) ==
    IF path = <<>> THEN node ELSE NodeAt(Children(node)[Head(path)], Tail(path))

\* p is a proper ancestor of q
Ancestor(p, q) == Len(p) < Len(q) /\ SubSeq(q, 1, Len(p)) = p

\* p lies in the subtree of an earlier sibling than the subtree q lies in
EarlierSibling(p, q) ==
    \E k \in 1..Len(p) :
        /\ k <= Len(q)
        /\ SubSeq(p, 1, k - 1) = SubSeq(q, 1, k - 1)
        /\ p[k] < q[k]

\* the place a pre-order traversal gives the node at path p: after its ancestors
\* and after the subtrees of earlier siblings, and after nothing else
PreOrderPlace(tree, p) ==
    1 + Cardinality({q \in PathsOf(tree) : Ancestor(q, p) \/ EarlierSibling(q, p)})

\* the tree and the plan of the transformation
DiagTree == TheOne(TheOne(TheOne(diag.explainResult).executionStats).executionStages)
DiagPlan == TheOne(diag.explainPlan)
Transformed == diag.explainPlan # {}

\* C11: the flattened stage list has exactly one entry per node of the tree, the
\* entry of a node stands at the node's pre-order place (after its ancestors and
\* after every node of an earlier sibling's subtree), and its depth is the
\* length of the path from the root (0 for the root, the parent's depth plus
\* one for every other node)
C11_StagesArePreOrder ==
    Transformed =>
        LET stages == DiagPlan.stages
            paths  == PathsOf(DiagTree)
        IN  /\ Len(stages) = Cardinality(paths)
            /\ \A p \in paths :
                  LET entry == stages[PreOrderPlace(DiagTree, p)]
                      node  == NodeAt(DiagTree, p)
                  IN  /\ entry.stage = node.stage
                      /\ entry.indexName = node.indexName
                      /\ entry.depth = Len(p)

\* a flattened tree whose root has two children, the first with a child of its
\* own: a descendant of the earlier sibling stands before the later sibling
C11_Witness ==
    /\ Transformed
    /\ {<<1, 1>>, <<2>>} \subseteq PathsOf(DiagTree)
    /\ NodeAt(DiagTree, <<1, 1>>).indexName # NodeAt(DiagTree, <<2>>).indexName
    /\ Len(DiagPlan.stages) = 4

\* the index names on the nodes of a tree, and the first pre-order place of each
IndexNamesOf(tree) == UNION { NodeAt(tree, p).indexName : p \in PathsOf(tree) }
FirstSeen(tree, name) ==
    LET places == { PreOrderPlace(tree, p) :
                      p \in {q \in PathsOf(tree) : NodeAt(tree, q).indexName = {name}} }
    IN  CHOOSE i \in places : \A j \in places : i <= j

\* C12: indexesUsed holds exactly the index names found on the nodes of the
\* tree, each once, in the order of their first appearance in pre-order
C12_IndexesUsedExactOnceInOrder ==
    Transformed =>
        LET used == DiagPlan.performance.indexesUsed
        IN  /\ {used[i] : i \in 1..Len(used)} = IndexNamesOf(DiagTree)
            /\ \A i \in 1..Len(used) : \A j \in 1..Len(used) :
                  i < j => /\ used[i] # used[j]
                           /\ FirstSeen(DiagTree, used[i]) < FirstSeen(DiagTree, used[j])

\* a tree with two index names, one of them on two nodes with the other one
\* in between
C12_Witness ==
    /\ Transformed
    /\ DiagPlan.performance.indexesUsed = <<"status_1", "age_1">>
    /\ \E p, q, u \in PathsOf(DiagTree) :
          /\ PreOrderPlace(DiagTree, p) < PreOrderPlace(DiagTree, q)
          /\ PreOrderPlace(DiagTree, q) < PreOrderPlace(DiagTree, u)
          /\ NodeAt(DiagTree, p).indexName = {"status_1"}
          /\ NodeAt(DiagTree, q).indexName = {"age_1"}
          /\ NodeAt(DiagTree, u).indexName = {"status_1"}

\* C13: the full-scan flag is true exactly when some node of the tree has the
\* stage name COLLSCAN
C13_ScanFlagIffSomeCollScan ==
    Transformed =>
        (DiagPlan.performance.isCollectionScan
            <=> \E p \in PathsOf(DiagTree) : NodeAt(DiagTree, p).stage = "COLLSCAN")

---------------------------------------------------------------------------
(* Properties of the Recommendation Generator *)

\* the explain request the Reconstructor submitted for request r, and its filter
SubmittedRequest(r) == req[r].explainCalls[Len(req[r].explainCalls)]
SubmittedFilter(r)  == SubmittedRequest(r).filter

\* the recommendations of a given type in the plan of request r
Recommended(r, type) ==
    { i \in 1..Len(PlanOf(r).recommendations) : PlanOf(r).recommendations[i].type = type }

\* C14: a missing-index recommendation, of priority high, is in the plan exactly
\* when the full-scan flag is true and the filter the Reconstructor submitted
\* has at least one field
C14_MissingIndexIffScanAndFilter ==
    \A r \in DOMAIN req :
        (Done(r) /\ HasPlan(r)) =>
            /\ Recommended(r, "missing_index") # {}
                  <=> (PlanOf(r).performance.isCollectionScan
                       /\ Keys(SubmittedFilter(r)) # {})
            /\ \A i \in Recommended(r, "missing_index") :
                  PlanOf(r).recommendations[i].priority = "high"

\* C15: the suggested index of a missing-index recommendation maps every field
\* of the filter to the index direction 1; it does not carry the match values
C15_SuggestedIndexIsKeyToDirection ==
    \A r \in DOMAIN req :
        (Done(r) /\ HasPlan(r)) =>
            \A i \in Recommended(r, "missing_index") :
                PlanOf(r).recommendations[i].suggestedIndex
                    = { {<<k, "1">> : k \in Keys(SubmittedFilter(r))} }

\* C16: a low-efficiency recommendation, of priority medium, is in the plan
\* exactly when the performance block of the same plan reports docsExamined > 0,
\* docsReturned > 0 and an efficiency below 10
C16_LowEfficiencyIffPerformanceBlock ==
    Transformed =>
        LET perf == DiagPlan.performance
            low  == { i \in 1..Len(DiagPlan.recommendations) :
                        DiagPlan.recommendations[i].type = "low_efficiency" }
        IN  /\ low # {} <=> /\ perf.totalDocsExamined > 0
                            /\ perf.totalDocsReturned > 0
                            /\ perf.efficiency < 10
            /\ \A i \in low : DiagPlan.recommendations[i].priority = "medium"

---------------------------------------------------------------------------
(* Properties of concurrent requests *)

\* C17: requests are independent: a step of a request changes nothing but that
\* request's own locals -- not the profiling log, not the target collection,
\* not the operations pending at the storage engine, all of which the other
\* requests share
C17_RequestsShareNoWrites ==
    [][ (\E r \in DOMAIN req : req[r]' # req[r])
            => /\ profile' = profile
               /\ data' = data
               /\ inflight' = inflight ]_vars

---------------------------------------------------------------------------
(* Properties of parameter validation *)

ApiDone == api.pc = "done"
ApiResp == api.response[Len(api.response)]
ApiParams == TheOne(api.params)
Aggregations == {i \in 1..Len(api.storage) : api.storage[i] = "aggregate"}

\* a body without beforePeriod or afterPeriod, or with a period without from or to
InvalidBody(body) ==
    \/ body.beforePeriod = {} \/ body.afterPeriod = {}
    \/ \E pd \in body.beforePeriod \cup body.afterPeriod :
          pd.from \in {{}, {""}} \/ pd.to \in {{}, {""}}

\* C18: a compare-periods request with an invalid body is answered 400 and
\* runs no aggregation against the profiling log
C18_InvalidBodyIs400 ==
    (api.endpoint = CompareEndpoint /\ api.params # {} /\ InvalidBody(ApiParams)) =>
        /\ Aggregations = {}
        /\ ApiDone => ApiResp.status = 400

\* a query string without from or without to
OmitsFromOrTo(query) == query.from \in {{}, {""}} \/ query.to \in {{}, {""}}

\* C19: a request that omits a required query parameter (queryId for the explain
\* route, from or to for the time-ranged GET endpoints) never reaches the
\* storage engine -- no handle is taken, no lookup, query or explain call is
\* issued -- and the response it ends with is a 400
C19_MissingParameterIs400BeforeStorage ==
    /\ \A r \in DOMAIN req :
          (req[r].pc # "idle" /\ ~Supplied(r)) =>
              /\ req[r].lookups = <<>> /\ req[r].explainCalls = <<>>
              /\ Done(r) /\ Resp(r).status = 400
    /\ (api.endpoint \in RangeEndpoints /\ api.params # {} /\ OmitsFromOrTo(ApiParams)) =>
          /\ api.storage = <<>>
          /\ api.pc \in {"validate", "done"}
          /\ ApiDone => ApiResp.status = 400

\* an analytics request with from but without to, and an explain request
\* without queryId, both answered 400
C19_Witness ==
    /\ api.endpoint = "performance-trends" /\ ApiDone
    /\ ApiParams.from = {"2025-01-01"} /\ ApiParams.to = {}
    /\ ApiResp.status = 400 /\ api.storage = <<>>
    /\ \E r \in DOMAIN req : Done(r) /\ req[r].queryId = {} /\ Resp(r).status = 400

---------------------------------------------------------------------------
(* Properties of the Operation Reconstructor *)

\* the first present of two aliases; the empty document when neither is present
FirstPresent(a, b) == IF a # {} THEN TheOne(a) ELSE IF b # {} THEN TheOne(b) ELSE {}

\* the alias table: the filter and the update-spec by operation type
AliasFilter(op, command) ==
    CASE op \in {"find", "query"}            -> FirstPresent(command.filter, command.query)
      [] op \in {"update", "delete", "remove"} -> FirstPresent(command.q, command.filter)
      [] op = "count"                         -> FirstPresent(command.query, command.filter)
      [] OTHER                                -> FirstPresent(command.filter, command.query)
AliasUpdate(command) == FirstPresent(command.u, command.update)

\* the operation the Reconstructor built for a located record
Reconstructed(doc) == ExplainRequestOf(doc) \cup DriverCallOf(doc)

---------------------------------------------------------------------------
(* Properties of the recommendation rules *)

\* the fields of a merged with the fields of b, b's value on a common key
Merged(a, b) ==
    {kv \in a \cup b : kv \in b \/ \A other \in b : other[1] # kv[1]}

RuleOrder == <<"missing_index", "sort_index", "low_efficiency">>
RulePlace(type) == CHOOSE i \in 1..3 : RuleOrder[i] = type

\* the condition of each rule over the explain result and the logged command
RuleHolds(type, explainResult, command) ==
    LET stats == IF explainResult.executionStats = {} THEN NoStats
                 ELSE TheOne(explainResult.executionStats)
        scan  == stats.executionStages # {}
                 /\ checkForCollScan(TheOne(stats.executionStages))
        examined == IF stats.totalDocsExamined = {} THEN 0 ELSE TheOne(stats.totalDocsExamined)
        returned == IF stats.totalDocsReturned = {} THEN 0 ELSE TheOne(stats.totalDocsReturned)
    IN  CASE type = "missing_index" ->
               scan /\ FirstPresent(command.filter,
                                    {FirstPresent(command.query, command.q)}) # {}
          [] type = "sort_index" -> scan /\ FirstPresent(command.sort, {}) # {}
          [] OTHER -> examined > 0 /\ returned > 0 /\ 100 * returned < 10 * examined

\* C22: every rule whose condition holds is emitted, once, whatever the other
\* rules do, and nothing else is emitted; the list is in the order
\* missing-index, sort-support, low-efficiency
C22_RulesIndependentAndOrdered ==
    Transformed =>
        LET recs    == DiagPlan.recommendations
            command == LoggedCommand(TheOne(diag.profileDoc))
        IN  /\ \A i \in 1..3 :
                  Cardinality({k \in 1..Len(recs) : recs[k].type = RuleOrder[i]})
                      = IF RuleHolds(RuleOrder[i], TheOne(diag.explainResult), command)
                        THEN 1 ELSE 0
            /\ \A k \in 1..Len(recs) : recs[k].type \in {RuleOrder[i] : i \in 1..3}
            /\ \A j \in 1..Len(recs) : \A k \in 1..Len(recs) :
                  j < k => RulePlace(recs[j].type) < RulePlace(recs[k].type)

\* the three rules fire on the same plan
C22_Witness ==
    /\ Transformed
    /\ Len(DiagPlan.recommendations) = 3
    /\ DiagPlan.recommendations[3].type = "low_efficiency"

---------------------------------------------------------------------------
(* Properties of the Namespace Resolver *)

\* the position of the first '.' of a text (0 when it has none), and the texts
\* before and after it
FirstDot(text) ==
    IF \E i \in 1..Len(text) : text[i] = "."
    THEN CHOOSE i \in 1..Len(text) : text[i] = "." /\ \A k \in 1..(i - 1) : text[k] # "."
    ELSE 0
BeforeFirstDot(text) == SubSeq(text, 1, FirstDot(text) - 1)
AfterFirstDot(text)  == SubSeq(text, FirstDot(text) + 1, Len(text))

\* a namespace string with no separator, or with nothing after the separator
Malformed(ns) ==
    /\ ns.kind = "string"
    /\ FirstDot(ns.text) = 0 \/ AfterFirstDot(ns.text) = <<>>

\* C23: a located operation with a malformed namespace ends the request with a
\* 400 that carries no body: no explain call is issued, no partial result is sent
C23_MalformedNamespaceIsFatal ==
    \A r \in DOMAIN req :
        (Located(r) /\ Malformed(LocatedDoc(r).ns)) =>
            /\ Done(r)
            /\ Resp(r).status = 400 /\ Resp(r).success = "none" /\ Resp(r).data = {}
            /\ Resp(r).message \in {MsgNoNamespace, MsgBadNamespace}
            /\ req[r].explainCalls = <<>>
            /\ req[r].stage = "namespace"

\* a record with namespace "a." was located and answered 400
C23_Witness ==
    \E r \in DOMAIN req :
        /\ Done(r) /\ Located(r) /\ LocatedDoc(r).ns = NsString(<<"a", ".">>)
        /\ Resp(r).status = 400 /\ Resp(r).message = MsgBadNamespace

\* C24: only the first '.' separates: the explain call goes to the store named
\* by the text before the first '.' and to the collection named by all of the
\* text after it
C24_OnlyFirstSeparatorHonoured ==
    \A r \in DOMAIN req :
        \A i \in 1..Len(req[r].explainCalls) :
            /\ req[r].explainCalls[i].db = BeforeFirstDot(LocatedDoc(r).ns.text)
            /\ req[r].explainCalls[i].coll = AfterFirstDot(LocatedDoc(r).ns.text)

---------------------------------------------------------------------------
(* Termination of the request *)

\* C25: a request that awaits the explain call of a located operation
\* eventually has its response, whether or not the storage engine replies
C25_ExplainingLeadsToResponse ==
    \A r \in Requests : (req[r].pc = "explaining") ~> Done(r)

---------------------------------------------------------------------------
(* Agreement of the three extractors *)

\* C26: the three extractors visit the same nodes: the full-scan flag is true
\* exactly when the flattened stage list has a COLLSCAN entry, and every index
\* name of the flattened stage list is in indexesUsed
C26_ExtractorsAgree ==
    Transformed =>
        LET stages == DiagPlan.stages
            used   == DiagPlan.performance.indexesUsed
        IN  /\ DiagPlan.performance.isCollectionScan
                  <=> \E i \in 1..Len(stages) : stages[i].stage = "COLLSCAN"
            /\ \A i \in 1..Len(stages) :
                  stages[i].indexName \subseteq {used[k] : k \in 1..Len(used)}

---------------------------------------------------------------------------
(* The filter of the Reconstructor and the filter of the Recommendation Generator *)

\* C27: the filter the generator inspects is the filter that was submitted to
\* explain: under a full scan a missing-index recommendation is made for the
\* submitted filter, and none is made only when the submitted filter is empty
C27_GeneratorInspectsSubmittedFilter ==
    \A r \in DOMAIN req :
        (Done(r) /\ HasPlan(r) /\ PlanOf(r).performance.isCollectionScan) =>
            /\ \A i \in Recommended(r, "missing_index") :
                  PlanOf(r).recommendations[i].suggestedIndex = {SubmittedFilter(r)}
            /\ Recommended(r, "missing_index") = {} => Keys(SubmittedFilter(r)) = {}

---------------------------------------------------------------------------
(* One response per request *)

\* the response classes of the endpoint
ResponseClass(resp) ==
    IF resp.success # "none" THEN resp.success
    ELSE IF resp.status = 400 THEN "400"
    ELSE IF resp.status = 404 THEN "404"
    ELSE IF resp.status = 500 THEN "500"
    ELSE "other"

\* C28: a request has no response until it ends and exactly one when it has
\* ended, which is a 400, a 404, a 500, a success or a partial result; a
\* request that has not ended still has a step to take; each lookup strategy
\* and the explain call are attempted at most once per request
C28_ExactlyOneResponseNoRetry ==
    \A r \in Requests :
        /\ Len(req[r].response) = (IF Done(r) THEN 1 ELSE 0)
        /\ Done(r) =>
              /\ ResponseClass(Resp(r)) \in {"400", "404", "500", "true", "false"}
              /\ Resp(r).success # "none" => Resp(r).status = 200
        /\ ~Done(r) =>
              ENABLED (Start(r) \/ LookupById(r) \/ LookupFallback(r) \/ ExplainReturns(r))
        /\ Len(req[r].lookups) <= 2
        /\ \A i, j \in 1..Len(req[r].lookups) :
              i # j => req[r].lookups[i] # req[r].lookups[j]
        /\ Len(req[r].explainCalls) <= 1

\* a request whose first lookup threw, whose second lookup found the record and
\* whose explain call returned has its one response
C28_Witness ==
    \E r \in Requests :
        /\ Done(r)
        /\ req[r].lookups = <<"objectId", "fallback">>
        /\ Len(req[r].explainCalls) = 1
        /\ Len(req[r].response) = 1 /\ Resp(r).success = "true"

---------------------------------------------------------------------------
(* The connection module *)

MaxClients == 2     \* clients created in one run
MaxCloses  == 2     \* close() calls on one client

\* connectToDatabase up to its first await: the early return when db is set,
\* else a new client is made, assigned to the module's client and asked to
\* connect
ConnectCall(c) ==
    /\ dbmod.callers[c].pc = "idle"
    /\ IF dbmod.db # 0
       THEN dbmod' = [dbmod EXCEPT
                        !.callers[c] = [pc |-> "returned", own |-> 0, result |-> dbmod.db],
                        !.ready = TRUE]
       ELSE /\ Len(dbmod.clients) < MaxClients
            /\ dbmod' = [dbmod EXCEPT
                           !.clients = Append(@, [state |-> "connecting", closeCalls |-> 0]),
                           !.client = Len(dbmod.clients) + 1,
                           !.callers[c] = [pc |-> "connecting",
                                           own |-> Len(dbmod.clients) + 1, result |-> 0]]
    /\ UNCHANGED <<profile, data, inflight, dispatched, req, diag, api>>

\* await client.connect() settles. Rejected: the catch logs and rethrows.
\* Resolved: db = client.db(dbName) reads the module's client as it is now
\* (a TypeError when it is null), then enableProfiling is called and awaited
ConnectSettles(c) ==
    LET own == dbmod.callers[c].own
    IN  /\ dbmod.callers[c].pc = "connecting"
        /\ \E ok \in BOOLEAN :
              IF ~ok
              THEN dbmod' = [dbmod EXCEPT
                               !.clients[own].state =
                                   IF @ = "connecting" THEN "failed" ELSE @,
                               !.callers[c].pc = "threw"]
              ELSE IF dbmod.client = 0
              THEN dbmod' = [dbmod EXCEPT
                               !.clients[own].state =
                                   IF @ = "connecting" THEN "connected" ELSE @,
                               !.callers[c].pc = "threw"]
              ELSE dbmod' = [dbmod EXCEPT
                               !.clients[own].state =
                                   IF @ = "connecting" THEN "connected" ELSE @,
                               !.db = dbmod.client,
                               !.callers[c].pc = "profiling"]
        /\ UNCHANGED <<profile, data, inflight, dispatched, req, diag, api>>

\* await enableProfiling() settles (it catches its own errors): return db, the
\* module's db as it is now
ProfilingSettles(c) ==
    /\ dbmod.callers[c].pc = "profiling"
    /\ dbmod' = [dbmod EXCEPT !.callers[c].pc = "returned",
                              !.callers[c].result = dbmod.db,
                              !.ready = TRUE]
    /\ UNCHANGED <<profile, data, inflight, dispatched, req, diag, api>>

\* the caller has its handle or its error; it may call again
CallerContinues(c) ==
    /\ dbmod.callers[c].pc \in {"returned", "threw"}
    /\ dbmod' = [dbmod EXCEPT !.callers[c] = IdleCaller]
    /\ UNCHANGED <<profile, data, inflight, dispatched, req, diag, api>>

\* getDatabase(): throws when db is null, else returns db
getDatabase == [called |-> TRUE, throws |-> dbmod.db = 0, handle |-> dbmod.db]

GetDatabase ==
    /\ dbmod' = [dbmod EXCEPT !.got = getDatabase]
    /\ UNCHANGED <<profile, data, inflight, dispatched, req, diag, api>>

\* closeDatabaseConnection up to its await: nothing to do when client is null,
\* else close() is called on the module's client
CloseCall ==
    /\ dbmod.closer.pc = "idle"
    /\ IF dbmod.client = 0
       THEN dbmod' = [dbmod EXCEPT !.ready = FALSE]
       ELSE /\ dbmod.clients[dbmod.client].closeCalls < MaxCloses
            /\ dbmod' = [dbmod EXCEPT
                           !.clients[dbmod.client].closeCalls = @ + 1,
                           !.closer = [pc |-> "closing", target |-> dbmod.client]]
    /\ UNCHANGED <<profile, data, inflight, dispatched, req, diag, api>>

\* await client.close() settles. Resolved: client = null; db = null.
\* Rejected: the catch logs the error. Either way the function returns
CloseSettles ==
    /\ dbmod.closer.pc = "closing"
    /\ \E ok \in BOOLEAN :
          IF ok
          THEN dbmod' = [dbmod EXCEPT
                           !.clients[dbmod.closer.target].state = "closed",
                           !.client = 0,
                           !.db = 0,
                           !.closer = [pc |-> "idle", target |-> 0],
                           !.ready = FALSE]
          ELSE dbmod' = [dbmod EXCEPT
                           !.closer = [pc |-> "idle", target |-> 0],
                           !.ready = FALSE]
    /\ UNCHANGED <<profile, data, inflight, dispatched, req, diag, api>>

InitDb ==
    /\ profile = ConcurrentLog
    /\ data = InitialData
    /\ inflight = {}
    /\ dispatched = {}
    /\ req = [r \in Requests |-> IdleReq]
    /\ diag = NoDiag
    /\ api = NoApi
    /\ dbmod = NoDb

NextDb ==
    \/ \E c \in Callers : ConnectCall(c)
    \/ \E c \in Callers : ConnectSettles(c)
    \/ \E c \in Callers : ProfilingSettles(c)
    \/ \E c \in Callers : CallerContinues(c)
    \/ GetDatabase
    \/ CloseCall
    \/ CloseSettles

SpecDb == InitDb /\ [][NextDb]_vars

---------------------------------------------------------------------------
(* Properties of the connection module *)

\* the clients that were made and have not failed or been closed
LiveClients ==
    {k \in 1..Len(dbmod.clients) : dbmod.clients[k].state \in {"connecting", "connected"}}

\* closeDatabaseConnection has not been called on any client
NeverClosed == \A k \in 1..Len(dbmod.clients) : dbmod.clients[k].closeCalls = 0

\* C29: connectToDatabase is idempotent under concurrency: as long as nothing
\* is closed, at most one client is made and connecting or connected, all
\* callers that have returned hold the same handle, and that handle is of a
\* client whose connect has completed
C29_ConnectIdempotent ==
    NeverClosed =>
        /\ Cardinality(LiveClients) <= 1
        /\ \A c, d \in Callers :
              (dbmod.callers[c].pc = "returned" /\ dbmod.callers[d].pc = "returned")
                  => dbmod.callers[c].result = dbmod.callers[d].result
        /\ \A c \in Callers :
              dbmod.callers[c].pc = "returned"
                  => /\ dbmod.callers[c].result # 0
                     /\ dbmod.clients[dbmod.callers[c].result].state = "connected"

\* C30: getDatabase throws in every state in which no connectToDatabase call
\* has returned since the start or since the last return of
\* closeDatabaseConnection, and close() is called at most once on a client
C30_HandleLifecycle ==
    /\ ~dbmod.ready => getDatabase.throws
    /\ \A k \in 1..Len(dbmod.clients) : dbmod.clients[k].closeCalls <= 1

=============================================================================
